---- MODULE Spec2Model ----
(***************************************************************************)
(* Model of CurrencyConverter (src/script.js): the rate cache, the startup *)
(* load, convertCurrency / getExchangeRate and the event handlers.         *)
(* One action is one browser task: an event handler, or the continuation   *)
(* of an awaited fetch() / response.json() with everything that runs       *)
(* synchronously after it.                                                 *)
(* Numbers are exact rationals with the JavaScript special values NaN and  *)
(* Infinity; floating-point rounding is not modelled.                      *)
(***************************************************************************)
EXTENDS Integers, Naturals, Sequences, FiniteSets, TLC

----------------------------------------------------------------------------
(* JavaScript values used by the program: undefined, NaN, +Infinity and    *)
(* rational numbers n/d (d > 0, lowest terms).                             *)

RECURSIVE GCD(_, _)
GCD(a, b) == IF b = 0 THEN a ELSE GCD(b, a % b)

Abs(n) == IF n < 0 THEN -n ELSE n

Undefined == [tag |-> "undefined", n |-> 0, d |-> 1]
NaN       == [tag |-> "NaN", n |-> 0, d |-> 1]
Infinity  == [tag |-> "Infinity", n |-> 1, d |-> 0]

Num(n, d) ==
    LET g == GCD(Abs(n), d)
    IN  [tag |-> "number", n |-> n \div g, d |-> d \div g]

One == Num(1, 1)

\* ToNumber(undefined) is NaN; the other values are numbers already.
ToNumber(v) == IF v.tag = "undefined" THEN NaN ELSE v

\* JavaScript truthiness of a value: undefined, NaN and 0 are falsy.
Truthy(v) == \/ v.tag = "Infinity"
             \/ (v.tag = "number" /\ v.n # 0)

\* a * b; negative operands only occur as finite numbers.
Mul(a, b) ==
    LET x == ToNumber(a)
        y == ToNumber(b)
    IN  IF x.tag = "NaN" \/ y.tag = "NaN" THEN NaN
        ELSE IF x.tag = "Infinity"
             THEN (IF y.tag = "number" /\ y.n = 0 THEN NaN ELSE Infinity)
        ELSE IF y.tag = "Infinity"
             THEN (IF x.n = 0 THEN NaN ELSE Infinity)
        ELSE Num(x.n * y.n, x.d * y.d)

\* 1 / a for a >= 0 (rates are never negative).
Inv(a) ==
    LET x == ToNumber(a)
    IN  IF x.tag = "NaN" THEN NaN
        ELSE IF x.tag = "Infinity" THEN Num(0, 1)
        ELSE IF x.n = 0 THEN Infinity
        ELSE Num(x.d, x.n)

\* a / b for b >= 0, as the JavaScript division operator computes it.
Div(a, b) ==
    LET x == ToNumber(a)
        y == ToNumber(b)
    IN  IF x.tag = "NaN" \/ y.tag = "NaN" THEN NaN
        ELSE IF x.tag = "Infinity"
             THEN (IF y.tag = "Infinity" THEN NaN ELSE Infinity)
        ELSE IF y.tag = "Infinity" THEN Num(0, 1)
        ELSE IF y.n = 0 THEN (IF x.n = 0 THEN NaN ELSE Infinity)
        ELSE Num(x.n * y.d, x.d * y.n)

\* amount <= 0 (false for NaN)
LeqZero(v) == \/ (v.tag = "number" /\ v.n <= 0)

\* The first k fraction digits of r/d (0 <= r < d) as a natural number,
\* by long division, and the remainder left after them.
RECURSIVE FracDigits(_, _, _, _)
FracDigits(r, d, k, acc) ==
    IF k = 0 THEN [digits |-> acc, rem |-> r]
    ELSE FracDigits((r * 10) % d, d, k - 1, acc * 10 + ((r * 10) \div d))

\* Rounding to six fraction digits, ties away from zero, as
\* Intl.NumberFormat({maximumFractionDigits: 6}) and toFixed(6) print.
Round6(v) ==
    IF v.tag # "number" THEN ToNumber(v)
    ELSE LET a == Abs(v.n)
             f == FracDigits(a % v.d, v.d, 6, 0)
             m == (a \div v.d) * 1000000 + f.digits
                    + (IF 2 * f.rem >= v.d THEN 1 ELSE 0)
         IN  Num((IF v.n < 0 THEN -m ELSE m), 1000000)

----------------------------------------------------------------------------
(* parseFloat on the text of the amount field.  A text is a sequence of    *)
(* one-character strings.                                                  *)

Digits == {"0", "1", "2", "3", "4", "5", "6", "7", "8", "9"}

DigitVal(c) ==
    CASE c = "0" -> 0 [] c = "1" -> 1 [] c = "2" -> 2 [] c = "3" -> 3
      [] c = "4" -> 4 [] c = "5" -> 5 [] c = "6" -> 6 [] c = "7" -> 7
      [] c = "8" -> 8 [] c = "9" -> 9

\* length of the longest prefix of s made of digits
RECURSIVE DigitPrefixLen(_)
DigitPrefixLen(s) ==
    IF s = <<>> \/ Head(s) \notin Digits THEN 0
    ELSE 1 + DigitPrefixLen(Tail(s))

RECURSIVE DigitsToNat(_, _)
DigitsToNat(s, acc) ==
    IF s = <<>> THEN acc
    ELSE DigitsToNat(Tail(s), 10 * acc + DigitVal(Head(s)))

RECURSIVE Pow10(_)
Pow10(k) == IF k = 0 THEN 1 ELSE 10 * Pow10(k - 1)

\* parseFloat: optional sign, digits, optional fraction; NaN when the text
\* does not start with a number.  Trailing characters are ignored.
ParseFloat(s) ==
    LET signed == s # <<>> /\ Head(s) \in {"-", "+"}
        neg    == s # <<>> /\ Head(s) = "-"
        body   == IF signed THEN Tail(s) ELSE s
        il     == DigitPrefixLen(body)
        rest   == SubSeq(body, il + 1, Len(body))
        hasDot == rest # <<>> /\ Head(rest) = "."
        fl     == IF hasDot THEN DigitPrefixLen(Tail(rest)) ELSE 0
        ip     == DigitsToNat(SubSeq(body, 1, il), 0)
        fp     == IF hasDot THEN DigitsToNat(SubSeq(Tail(rest), 1, fl), 0) ELSE 0
        mag    == ip * Pow10(fl) + fp
    IN  IF il = 0 /\ fl = 0 THEN NaN
        ELSE Num((IF neg THEN -mag ELSE mag), Pow10(fl))

----------------------------------------------------------------------------
(* Rate tables and the rate cache.  A table is a function from the codes   *)
(* it has an entry for to numbers; the cache (this.exchangeRates) is a     *)
(* function from the cached base codes to tables.                          *)

\* The currencies offered by the two select elements.
Currencies == {"USD", "EUR", "JPY"}

\* The texts typed into the amount field.
AmountInputs == { <<>>, <<"0">>, <<"-", "2">>, <<"1", ".", "5">> }

EmptyTable == [c \in {} |-> One]

\* table[code]; a missing entry reads as undefined
Lookup(table, code) ==
    IF code \in DOMAIN table THEN table[code] ELSE Undefined

\* object[key] = value
Put(object, key, value) ==
    [k \in (DOMAIN object) \cup {key} |->
        IF k = key THEN value ELSE object[k]]

FallbackRates ==
    ("EUR" :> Num(85, 100)) @@ ("GBP" :> Num(73, 100)) @@
    ("JPY" :> Num(110, 1))  @@ ("AUD" :> Num(135, 100)) @@
    ("CAD" :> Num(125, 100)) @@ ("CHF" :> Num(92, 100)) @@
    ("CNY" :> Num(645, 100)) @@ ("INR" :> Num(745, 10)) @@
    ("TRY" :> Num(85, 10))  @@ ("USD" :> One)

(* What the endpoints can answer.  A JSON body is either {rates: table} or *)
(* a bare mapping; the body of an unsuccessful response is an error object *)
(* with no currency entries.                                               *)

UsdLive == ("USD" :> One) @@ ("EUR" :> Num(9, 10)) @@ ("JPY" :> Num(100, 1))
UsdAlt  == ("USD" :> One) @@ ("EUR" :> Num(4, 5))
EurLive == ("EUR" :> One) @@ ("USD" :> Num(11, 10)) @@ ("JPY" :> Num(120, 1))
JpyLive == ("JPY" :> One) @@ ("USD" :> Num(1, 100))

Wrapped(table) == [hasRates |-> TRUE, rates |-> table, top |-> EmptyTable]
Bare(table)    == [hasRates |-> FALSE, rates |-> EmptyTable, top |-> table]

ErrorBody == Bare(EmptyTable)

\* bodies of successful responses of `${baseUrl}${base}`
PrimaryBodies(base) ==
    CASE base = "USD" -> {Wrapped(UsdLive)}
      [] base = "EUR" -> {Wrapped(EurLive)}
      [] OTHER        -> {Wrapped(JpyLive)}

\* bodies of successful responses of `${fallbackUrl}?base=USD`
SecondaryBodies == {Bare(UsdAlt)}

\* the bodies response.json() can yield for a response
BodiesOf(src, base, ok) ==
    IF ~ok THEN {ErrorBody}
    ELSE IF src = "secondary" THEN SecondaryBodies
    ELSE PrimaryBodies(base)

\* data.rates || data
RatesOf(data) == IF data.hasRates THEN data.rates ELSE data.top

----------------------------------------------------------------------------
(* getExchangeRate, as pure functions of the cache.                        *)

Return(v) == [threw |-> FALSE, value |-> v]
Throw     == [threw |-> TRUE, value |-> Undefined]

\* line 147 with only its right operand
DirectOrInverseOnlyInverse(rates, from, to) ==
    IF to \in DOMAIN rates
    THEN Return(Inv(Lookup(rates[to], from)))
    ELSE Throw

\* line 147 reading the inverse through optional chaining: no TypeError
DirectOrInverseNoThrow(rates, from, to) ==
    LET direct == Lookup(rates[from], to)
    IN  IF Truthy(direct) THEN Return(direct)
        ELSE IF to \in DOMAIN rates
             THEN Return(Inv(Lookup(rates[to], from)))
             ELSE Return(NaN)

\* line 147: this.exchangeRates[from][to] || (1 / this.exchangeRates[to][from])
\* (from is cached); reading [from] of a table that is not cached throws.
DirectOrInverse(rates, from, to) ==
    LET direct == Lookup(rates[from], to)
    IN  IF Truthy(direct) THEN Return(direct)
        ELSE IF to \in DOMAIN rates
             THEN Return(Inv(Lookup(rates[to], from)))
             ELSE Throw

\* the catch block with from and to exchanged
CrossRateSwapped(rates, from, to) ==
    IF "USD" \in DOMAIN rates
    THEN Return(Mul(Lookup(rates["USD"], from), Inv(Lookup(rates["USD"], to))))
    ELSE Throw

\* the catch block with usdToFrom not inverted
CrossRateNoInversion(rates, from, to) ==
    IF "USD" \in DOMAIN rates
    THEN Return(Mul(Lookup(rates["USD"], to), Lookup(rates["USD"], from)))
    ELSE Throw

\* lines 136-144: the catch block of the on-demand fetch
CrossRate(rates, from, to) ==
    IF "USD" \in DOMAIN rates
    THEN LET usdToFrom == Inv(Lookup(rates["USD"], from))
             usdToTo   == Lookup(rates["USD"], to)
         IN  Return(Mul(usdToTo, usdToFrom))
    ELSE Throw

\* lines 134-135 assigning a fresh cache object instead of one entry
StoreRatesReset(rates, from, data) ==
    Put([b \in {} |-> EmptyTable], from, RatesOf(data))

\* lines 134-135: the body arrived and parsed
StoreRates(rates, from, data) == Put(rates, from, RatesOf(data))

\* what the on-demand request of getExchangeRate(base, ...) can end in
Outcomes(base) ==
    {[threw |-> TRUE, data |-> ErrorBody]} \cup
    {[threw |-> FALSE, data |-> d] :
        d \in BodiesOf("primary", base, TRUE)
                 \cup BodiesOf("primary", base, FALSE)}

\* lines 129-148: one whole call of getExchangeRate(from, to) on the cache
\* `rates` whose request, if it makes one, ends in `outcome`: the cache it
\* leaves and what it returns
getExchangeRate(rates, from, to, outcome) ==
    IF from \in DOMAIN rates
    THEN [rates |-> rates, res |-> DirectOrInverse(rates, from, to)]
    ELSE IF outcome.threw
    THEN [rates |-> rates, res |-> CrossRate(rates, from, to)]
    ELSE LET stored == StoreRates(rates, from, outcome.data)
         IN  [rates |-> stored, res |-> DirectOrInverse(stored, from, to)]

----------------------------------------------------------------------------
(* The display: the loading indicator, the result box and its content.     *)

MsgInvalid  == "Please enter a valid amount"
MsgFailed   == "Conversion failed. Please try again."
MsgFallback == "Failed to load exchange rates. Using fallback rates."

NoContent ==
    [kind |-> "empty", message |-> "", amount |-> Undefined,
     from |-> "", to |-> "", rate |-> Undefined]

showLoading(u) ==
    [u EXCEPT !.loading = TRUE, !.contentVisible = FALSE, !.error = FALSE]

\* the content shows the formatted amount and rate.toFixed(6)
showResult(u, amount, from, to, rate) ==
    [u EXCEPT !.loading = FALSE, !.contentVisible = TRUE, !.error = FALSE,
              !.show = TRUE, !.rateInfo = TRUE,
              !.content = [kind |-> "result", message |-> "",
                           amount |-> Round6(amount), from |-> from,
                           to |-> to, rate |-> Round6(rate)]]

showError(u, message) ==
    [u EXCEPT !.loading = FALSE, !.contentVisible = TRUE, !.error = TRUE,
              !.content = [NoContent EXCEPT !.kind = "error",
                                            !.message = message]]

\* lines 120-126 with an empty catch block
SettleSilent(u, amount, from, to, res) ==
    IF res.threw
    THEN u
    ELSE showResult(u, Mul(amount, res.value), from, to, res.value)

\* lines 120-126 of convertCurrency: what follows `await getExchangeRate`
Settle(u, amount, from, to, res) ==
    IF res.threw
    THEN showError(u, MsgFailed)
    ELSE showResult(u, Mul(amount, res.value), from, to, res.value)

\* loadFallbackRates() leaving a USD table that is already cached
loadFallbackRatesKeepLive(rates) ==
    IF "USD" \in DOMAIN rates THEN rates ELSE Put(rates, "USD", FallbackRates)

\* this.exchangeRates after loadFallbackRates()
loadFallbackRates(rates) == Put(rates, "USD", FallbackRates)

----------------------------------------------------------------------------
(* State.                                                                  *)

\* convertCurrency is invoked at most this many times in a run
MaxCalls == 2

VARIABLES
    amountInput,    \* text of the amount field
    fromCurrency,   \* value of the from select
    toCurrency,     \* value of the to select
    exchangeRates,  \* the rate cache
    origin,         \* history: where each cached table came from
    load,           \* the loadExchangeRates call started by the constructor
    pending,        \* convertCurrency calls awaiting their fetch, oldest first
    ui,             \* the display
    calls,          \* history: the number of convertCurrency calls so far
    lastCall        \* history: the convertCurrency call that finished last

vars == <<amountInput, fromCurrency, toCurrency, exchangeRates, origin,
          load, pending, ui, calls, lastCall>>

form == <<amountInput, fromCurrency, toCurrency>>

NoCall ==
    [id |-> 0, path |-> "none", threw |-> FALSE, rate |-> Undefined,
     overtaken |-> FALSE, requests |-> 0]

\* the record of the id-th call, finished: path is how its rate was obtained
\* ("invalid" input, "same" currency, "cached" table, "fetched" table, or
\* "cross" for the catch block), res what getExchangeRate gave, overtaken
\* whether a call made after it finished, off the network, before it,
\* requests the number of requests it issued
Call(id, path, res, overtaken, requests) ==
    [id |-> id, path |-> path, threw |-> res.threw, rate |-> res.value,
     overtaken |-> overtaken, requests |-> requests]

RemoveAt(seq, i) == SubSeq(seq, 1, i - 1) \o SubSeq(seq, i + 1, Len(seq))

\* pending without its i-th call, which has finished: the calls made before
\* it and still waiting have been overtaken
Finish(seq, i) ==
    RemoveAt([j \in 1..Len(seq) |->
                 IF j < i THEN [seq[j] EXCEPT !.overtaken = TRUE] ELSE seq[j]],
             i)

\* The constructor: an empty cache, and loadExchangeRates has issued its
\* first fetch.  The form starts with whatever the page's markup holds.
Init ==
    /\ amountInput \in AmountInputs
    /\ fromCurrency \in Currencies
    /\ toCurrency \in Currencies
    /\ exchangeRates = [b \in {} |-> EmptyTable]
    /\ origin = [b \in {} |-> ""]
    /\ load = [pc |-> "primary", src |-> "primary", ok |-> FALSE,
               caught |-> FALSE, usdStored |-> FALSE,
               usdData |-> EmptyTable, requests |-> 1]
    /\ pending = <<>>
    /\ ui = [loading |-> FALSE, contentVisible |-> TRUE, error |-> FALSE,
             show |-> FALSE, rateInfo |-> FALSE, content |-> NoContent]
    /\ calls = 0
    /\ lastCall = NoCall

----------------------------------------------------------------------------
(* loadExchangeRates (lines 58-84).  load.pc names the request the call is *)
(* waiting for: "primary" (line 61), "secondary" (line 65), "eur" (line    *)
(* 73), or "done".  The call does nothing between `await fetch` and        *)
(* `await response.json()` of a response whose body it reads, so the two   *)
(* continuations are one step, taken when the body has arrived.            *)

\* lines 79-83: the catch block
LoadCatch ==
    /\ ui' = showError(ui, MsgFallback)
    /\ exchangeRates' = loadFallbackRates(exchangeRates)
    /\ origin' = Put(origin, "USD", "fallback")

\* an awaited fetch() rejects (network failure) or an awaited
\* response.json() rejects (malformed body)
LoadThrew ==
    /\ load.pc \in {"primary", "secondary", "eur"}
    /\ LoadCatch
    /\ load' = [load EXCEPT !.pc = "done", !.caught = TRUE]
    /\ UNCHANGED <<form, pending, calls, lastCall>>

\* lines 61-65: the primary response is not ok; the secondary request is
\* issued
LoadPrimaryNotOk ==
    /\ load.pc = "primary"
    /\ load' = [load EXCEPT !.pc = "secondary", !.src = "secondary",
                            !.requests = @ + 1]
    /\ UNCHANGED <<form, exchangeRates, origin, pending, ui, calls, lastCall>>

\* lines 61-73: the body of the ok primary response, or of the secondary
\* response whatever its ok flag, parsed; store it and issue the EUR request
LoadUsdArrived(ok, data) ==
    /\ load.pc \in {"primary", "secondary"}
    /\ load.pc = "primary" => ok
    /\ data \in BodiesOf(load.src, "USD", ok)
    /\ exchangeRates' = StoreRates(exchangeRates, "USD", data)
    /\ origin' = Put(origin, "USD", IF ok THEN "ok" ELSE "notok")
    /\ load' = [load EXCEPT !.pc = "eur", !.ok = ok, !.usdStored = TRUE,
                            !.usdData = RatesOf(data), !.requests = @ + 1]
    /\ UNCHANGED <<form, pending, ui, calls, lastCall>>

\* lines 73-74: the EUR response is not ok
LoadEurNotOk ==
    /\ load.pc = "eur"
    /\ load' = [load EXCEPT !.pc = "done"]
    /\ UNCHANGED <<form, exchangeRates, origin, pending, ui, calls, lastCall>>

\* lines 73-76: the body of the ok EUR response parsed
LoadEurArrived(data) ==
    /\ load.pc = "eur"
    /\ data \in BodiesOf("primary", "EUR", TRUE)
    /\ exchangeRates' = StoreRates(exchangeRates, "EUR", data)
    /\ origin' = Put(origin, "EUR", "ok")
    /\ load' = [load EXCEPT !.pc = "done"]
    /\ UNCHANGED <<form, pending, ui, calls, lastCall>>

----------------------------------------------------------------------------
(* convertCurrency (lines 102-127) and getExchangeRate (lines 129-148).    *)
(* A call whose rate needs no fetch runs to its end within the task that   *)
(* started it; otherwise it joins `pending` until its fetch (line 133)     *)
(* rejects or the body (line 134) has arrived.                             *)

\* line 107 without its `!amount` test: NaN passes
InvalidAmountNoNaN(amount) == LeqZero(amount)

\* line 107: !amount || amount <= 0
InvalidAmount(amount) == ~Truthy(amount) \/ LeqZero(amount)

\* line 112 never taking the shortcut
SameCurrencyNever(from, to) == FALSE

\* line 112: from === to
SameCurrency(from, to) == from = to

\* convertCurrency() with the form reading (text, from, to)
convertCurrency(text, from, to) ==
    LET amount == ParseFloat(text)
        id     == calls + 1
    IN  /\ calls < MaxCalls
        /\ calls' = id
        /\ UNCHANGED load
        /\ IF InvalidAmount(amount)
           THEN /\ ui' = showError(ui, MsgInvalid)
                /\ lastCall' = Call(id, "invalid", Return(Undefined), FALSE, 0)
                /\ UNCHANGED <<exchangeRates, origin, pending>>
           ELSE IF SameCurrency(from, to)
           THEN /\ ui' = showResult(ui, amount, from, to, One)
                /\ lastCall' = Call(id, "same", Return(One), FALSE, 0)
                /\ UNCHANGED <<exchangeRates, origin, pending>>
           ELSE IF from \in DOMAIN exchangeRates
           THEN LET res == DirectOrInverse(exchangeRates, from, to)
                IN  /\ ui' = Settle(showLoading(ui), amount, from, to, res)
                    /\ lastCall' = Call(id, "cached", res, FALSE, 0)
                    /\ UNCHANGED <<exchangeRates, origin, pending>>
           ELSE /\ ui' = showLoading(ui)
                /\ pending' = Append(pending,
                                  [id |-> id, amount |-> amount,
                                   from |-> from, to |-> to,
                                   overtaken |-> FALSE,
                                   requests |-> 1])
                /\ UNCHANGED <<exchangeRates, origin, lastCall>>

\* the catch path dropping the outcome of a call that is no longer the
\* latest request
GetRateCatchDropStale(i) ==
    LET c   == pending[i]
        res == CrossRate(exchangeRates, c.from, c.to)
    IN  /\ pending' = Finish(pending, i)
        /\ IF c.id < calls
           THEN UNCHANGED <<ui, lastCall>>
           ELSE /\ ui' = Settle(ui, c.amount, c.from, c.to, res)
                /\ lastCall' = Call(c.id, "cross", res, c.overtaken,
                                    c.requests)
        /\ UNCHANGED <<form, exchangeRates, origin, load, calls>>

\* the catch path issuing the request once more before giving up
GetRateCatchRetry(i) ==
    LET c   == pending[i]
        res == CrossRate(exchangeRates, c.from, c.to)
    IN  IF c.requests < 2
        THEN /\ pending' = [pending EXCEPT ![i].requests = @ + 1]
             /\ UNCHANGED <<form, exchangeRates, origin, load, ui, calls,
                            lastCall>>
        ELSE /\ ui' = Settle(ui, c.amount, c.from, c.to, res)
             /\ pending' = Finish(pending, i)
             /\ lastCall' = Call(c.id, "cross", res, c.overtaken,
                                 c.requests)
             /\ UNCHANGED <<form, exchangeRates, origin, load, calls>>

\* the catch path with convertCurrency's catch block only logging
GetRateCatchSwallow(i) ==
    LET c   == pending[i]
        res == CrossRate(exchangeRates, c.from, c.to)
    IN  /\ ui' = IF res.threw
                 THEN ui
                 ELSE Settle(ui, c.amount, c.from, c.to, res)
        /\ pending' = Finish(pending, i)
        /\ lastCall' = Call(c.id, "cross", res, c.overtaken,
                            c.requests)
        /\ UNCHANGED <<form, exchangeRates, origin, load, calls>>

\* lines 136-144 then 120-126: the on-demand fetch of pending[i] threw
GetRateCatch(i) ==
    LET c   == pending[i]
        res == CrossRate(exchangeRates, c.from, c.to)
    IN  /\ ui' = Settle(ui, c.amount, c.from, c.to, res)
        /\ pending' = Finish(pending, i)
        /\ lastCall' = Call(c.id, "cross", res, c.overtaken,
                            c.requests)
        /\ UNCHANGED <<form, exchangeRates, origin, load, calls>>

\* line 133: fetch() rejects, or line 134: response.json() rejects
GetRateThrew(i) ==
    /\ i \in 1..Len(pending)
    /\ GetRateCatch(i)

\* lines 133-135, 147 then 120-126: the body parsed; the response's ok flag
\* is not looked at
GetRateArrived(i, ok, data) ==
    /\ i \in 1..Len(pending)
    /\ data \in BodiesOf("primary", pending[i].from, ok)
    /\ LET c     == pending[i]
           rates == StoreRates(exchangeRates, c.from, data)
           res   == DirectOrInverse(rates, c.from, c.to)
       IN  /\ exchangeRates' = rates
           /\ origin' = Put(origin, c.from, IF ok THEN "ok" ELSE "notok")
           /\ ui' = Settle(ui, c.amount, c.from, c.to, res)
           /\ pending' = Finish(pending, i)
           /\ lastCall' = Call(c.id, "fetched", res, c.overtaken,
                               c.requests)
    /\ UNCHANGED <<form, load, calls>>

----------------------------------------------------------------------------
(* The event handlers bound by bindEvents (lines 27-56) and swapCurrencies *)
(* (lines 150-160).                                                        *)

Keys == {"Enter", "a"}

\* click on the convert button
ClickConvert ==
    /\ convertCurrency(amountInput, fromCurrency, toCurrency)
    /\ UNCHANGED form

\* a key pressed in the amount field
KeypressAmount(key) ==
    IF key = "Enter"
    THEN /\ convertCurrency(amountInput, fromCurrency, toCurrency)
         /\ UNCHANGED form
    ELSE UNCHANGED vars

\* the amount field is edited
InputAmount(text) ==
    /\ text \in AmountInputs
    /\ text # amountInput
    /\ amountInput' = text
    /\ UNCHANGED <<fromCurrency, toCurrency>>
    /\ IF text # <<>> /\ fromCurrency \in DOMAIN exchangeRates
       THEN convertCurrency(text, fromCurrency, toCurrency)
       ELSE UNCHANGED <<exchangeRates, origin, load, pending, ui, calls, lastCall>>

\* another from currency is selected
ChangeFrom(code) ==
    /\ code \in Currencies
    /\ code # fromCurrency
    /\ fromCurrency' = code
    /\ UNCHANGED <<amountInput, toCurrency>>
    /\ IF amountInput # <<>>
       THEN convertCurrency(amountInput, code, toCurrency)
       ELSE UNCHANGED <<exchangeRates, origin, load, pending, ui, calls, lastCall>>

\* another to currency is selected
ChangeTo(code) ==
    /\ code \in Currencies
    /\ code # toCurrency
    /\ toCurrency' = code
    /\ UNCHANGED <<amountInput, fromCurrency>>
    /\ IF amountInput # <<>>
       THEN convertCurrency(amountInput, fromCurrency, code)
       ELSE UNCHANGED <<exchangeRates, origin, load, pending, ui, calls, lastCall>>

\* the swap written without its temporaries: the to select is assigned from
\* the from select after that one has been overwritten
swapCurrenciesNoTemp ==
    /\ fromCurrency' = toCurrency
    /\ toCurrency' = toCurrency
    /\ UNCHANGED amountInput
    /\ IF amountInput # <<>>
       THEN convertCurrency(amountInput, toCurrency, toCurrency)
       ELSE UNCHANGED <<exchangeRates, origin, load, pending, ui, calls, lastCall>>

\* click on the swap button
swapCurrencies ==
    /\ fromCurrency' = toCurrency
    /\ toCurrency' = fromCurrency
    /\ UNCHANGED amountInput
    /\ IF amountInput # <<>>
       THEN convertCurrency(amountInput, toCurrency, fromCurrency)
       ELSE UNCHANGED <<exchangeRates, origin, load, pending, ui, calls, lastCall>>

AllBodies ==
    SecondaryBodies \cup {ErrorBody}
        \cup UNION {PrimaryBodies(b) : b \in Currencies}

Next ==
    \/ LoadThrew
    \/ LoadPrimaryNotOk
    \/ \E ok \in BOOLEAN, data \in AllBodies : LoadUsdArrived(ok, data)
    \/ LoadEurNotOk
    \/ \E data \in AllBodies : LoadEurArrived(data)
    \/ \E i \in 1..MaxCalls : GetRateThrew(i)
    \/ \E i \in 1..MaxCalls, ok \in BOOLEAN, data \in AllBodies :
          GetRateArrived(i, ok, data)
    \/ ClickConvert
    \/ \E key \in Keys : KeypressAmount(key)
    \/ \E text \in AmountInputs : InputAmount(text)
    \/ \E code \in Currencies : ChangeFrom(code)
    \/ \E code \in Currencies : ChangeTo(code)
    \/ swapCurrencies

\* a request of a waiting conversion ends
ConversionRequestEnds ==
    \E i \in 1..MaxCalls :
       \/ GetRateThrew(i)
       \/ \E ok \in BOOLEAN, data \in AllBodies : GetRateArrived(i, ok, data)

\* a request of the startup load ends
LoadRequestEnds ==
    \/ LoadThrew
    \/ LoadPrimaryNotOk
    \/ \E ok \in BOOLEAN, data \in AllBodies : LoadUsdArrived(ok, data)
    \/ LoadEurNotOk
    \/ \E data \in AllBodies : LoadEurArrived(data)

Spec == Init /\ [][Next]_vars

\* Every issued fetch eventually resolves or rejects: weak fairness of
\* ConversionRequestEnds and of LoadRequestEnds, with the enabling condition
\* of each written out (a conversion is waiting; the load is not done).
FairSpec ==
    /\ Spec
    /\ []<>(pending = <<>>) \/ []<><<ConversionRequestEnds>>_vars
    /\ []<>(load.pc = "done") \/ []<><<LoadRequestEnds>>_vars

\* a session in which the two selects change only through the swap button
SwapNext ==
    \/ LoadRequestEnds
    \/ ConversionRequestEnds
    \/ ClickConvert
    \/ \E key \in Keys : KeypressAmount(key)
    \/ \E text \in AmountInputs : InputAmount(text)
    \/ swapCurrencies

SwapSpec == Init /\ [][SwapNext]_vars

----------------------------------------------------------------------------
(* Properties.                                                             *)

\* this step is a call of convertCurrency (it reads the form as the step
\* leaves it)
Invoked == calls' = calls + 1

AmountRead == ParseFloat(amountInput')

\* this step ends the call pending[i]
Ends(i) ==
    /\ i \in 1..Len(pending)
    /\ Len(pending') = Len(pending) - 1
    /\ lastCall'.id = pending[i].id

ErrorContent(message) ==
    [kind |-> "error", message |-> message, amount |-> Undefined,
     from |-> "", to |-> "", rate |-> Undefined]

TenCodes ==
    {"EUR", "GBP", "JPY", "AUD", "CAD", "CHF", "CNY", "INR", "TRY", "USD"}

\* C1: a convertCurrency call whose amount parses to 0, NaN or a negative
\* number shows 'Please enter a valid amount', starts no fetch, leaves the
\* loading indicator off and leaves the cache as it is.
C1_InvalidAmountRejected ==
    [][ ( /\ Invoked
          /\ \/ AmountRead.tag = "NaN"
             \/ (AmountRead.tag = "number" /\ AmountRead.n <= 0) )
        => /\ ui'.content = ErrorContent(MsgInvalid)
           /\ ~ui'.loading
           /\ pending' = pending
           /\ load' = load
           /\ exchangeRates' = exchangeRates ]_vars

C1_Witness ==
    /\ lastCall.path = "invalid"
    /\ ui.content = ErrorContent(MsgInvalid)
    /\ ParseFloat(amountInput).tag = "number"
    /\ ParseFloat(amountInput).n < 0
    /\ exchangeRates # <<>>

C3_LoadFailureInstallsFallback ==
    [][ (load.pc # "done" /\ load'.caught)
        => /\ load'.pc = "done"
           /\ "USD" \in DOMAIN exchangeRates'
           /\ DOMAIN exchangeRates'["USD"] = TenCodes
           /\ exchangeRates'["USD"] = FallbackRates
           /\ ui'.content = ErrorContent(MsgFallback) ]_vars

C3_Witness ==
    /\ load.pc = "done"
    /\ load.caught
    /\ load.usdStored
    /\ exchangeRates["USD"] = FallbackRates
    /\ exchangeRates["USD"]["EUR"] = Num(17, 20)

\* C4: when the primary USD response was unsuccessful and the secondary
\* one succeeded, the load ends with the secondary endpoint's data as the
\* cache's USD table and without the fallback table, whatever the EUR
\* request does.
C4_SecondaryDataKept ==
    [][ ( /\ load.pc # "done"
          /\ load'.pc = "done"
          /\ load.src = "secondary"
          /\ load.ok
          /\ load.usdStored )
        => /\ ~load'.caught
           /\ exchangeRates'["USD"] = load.usdData
           /\ origin'["USD"] # "fallback" ]_vars

\* C5: a getExchangeRate(from, to) call whose fetch failed while a USD
\* table is cached returns table[USD][to] / table[USD][from] and adds
\* nothing to the cache.
C5_CrossRateThroughUsd ==
    [][ \A i \in 1..Len(pending) :
          ( /\ Ends(i)
            /\ lastCall'.path = "cross"
            /\ "USD" \in DOMAIN exchangeRates )
          => /\ ~lastCall'.threw
             /\ lastCall'.rate =
                   Div(Lookup(exchangeRates["USD"], pending[i].to),
                       Lookup(exchangeRates["USD"], pending[i].from))
             /\ exchangeRates' = exchangeRates ]_vars

C5_Witness ==
    /\ lastCall.path = "cross"
    /\ ~lastCall.threw
    /\ lastCall.rate = Num(9, 1000)
    /\ ui.content.kind = "result"
    /\ ui.content.from = "JPY"
    /\ ui.content.to = "EUR"
    /\ "JPY" \notin DOMAIN exchangeRates
    /\ "EUR" \notin DOMAIN exchangeRates

\* C6: a getExchangeRate call whose fetch failed while no USD table is
\* cached throws; convertCurrency shows 'Conversion failed' and no result,
\* and the cache is as it was.
C6_FailureWithoutUsdShown ==
    [][ \A i \in 1..Len(pending) :
          ( /\ Ends(i)
            /\ lastCall'.path = "cross"
            /\ "USD" \notin DOMAIN exchangeRates )
          => /\ lastCall'.threw
             /\ ui'.content = ErrorContent(MsgFailed)
             /\ ~ui'.loading
             /\ exchangeRates' = exchangeRates ]_vars

C6_Witness ==
    /\ lastCall.path = "cross"
    /\ lastCall.threw
    /\ "USD" \notin DOMAIN exchangeRates
    /\ ui.content = ErrorContent(MsgFailed)

\* C7: while the cache's USD table is the fallback table,
\* getExchangeRate('USD', 'EUR') returns 0.85 and makes no request.
C7_FallbackUsdEur ==
    [][ ( /\ Invoked
          /\ AmountRead.tag = "number"
          /\ AmountRead.n > 0
          /\ fromCurrency' = "USD"
          /\ toCurrency' = "EUR"
          /\ "USD" \in DOMAIN exchangeRates
          /\ exchangeRates["USD"] = FallbackRates )
        => /\ lastCall'.id = calls'
           /\ ~lastCall'.threw
           /\ lastCall'.rate = Num(85, 100)
           /\ pending' = pending
           /\ load' = load ]_vars

C7_Witness ==
    /\ lastCall.path = "cached"
    /\ lastCall.rate = Num(85, 100)
    /\ "USD" \in DOMAIN exchangeRates
    /\ exchangeRates["USD"] = FallbackRates
    /\ ui.content.kind = "result"
    /\ ui.content.from = "USD"
    /\ ui.content.to = "EUR"

\* C8: a conversion whose fetch failed and whose cached USD table lacks an
\* entry for from or for to ends with 'Conversion failed', never with a
\* result on display.
C8_MissingCrossDataFails ==
    [][ \A i \in 1..Len(pending) :
          ( /\ Ends(i)
            /\ lastCall'.path = "cross"
            /\ "USD" \in DOMAIN exchangeRates
            /\ \/ pending[i].from \notin DOMAIN exchangeRates["USD"]
               \/ pending[i].to \notin DOMAIN exchangeRates["USD"] )
          => /\ ui'.content = ErrorContent(MsgFailed)
             /\ ui'.content.kind # "result" ]_vars

Failed == [threw |-> TRUE, data |-> ErrorBody]

\* a nonzero finite number
Positive(v) == v.tag = "number" /\ v.n > 0

C10_LastResponseWins ==
    [][ \A i \in 1..Len(pending) :
          \/ \E j \in 1..Len(pending') :
                /\ pending'[j].id = pending[i].id
                /\ pending'[j].from = pending[i].from
                /\ pending'[j].to = pending[i].to
                /\ pending'[j].amount = pending[i].amount
          \/ /\ Ends(i)
             /\ ~ui'.loading
             /\ IF lastCall'.threw
                THEN ui'.content = ErrorContent(MsgFailed)
                ELSE /\ ui'.content.kind = "result"
                     /\ ui'.content.from = pending[i].from
                     /\ ui'.content.to = pending[i].to
                     /\ ui'.content.rate = Round6(lastCall'.rate)
                     /\ ui'.content.amount =
                           Round6(Mul(pending[i].amount, lastCall'.rate)) ]_vars

\* every call has finished, and the display holds the result of the first
\* call although the second call, in flight together with it, finished
\* before it
C10_Witness ==
    /\ pending = <<>>
    /\ calls = 2
    /\ lastCall.id = 1
    /\ lastCall.overtaken
    /\ ~lastCall.threw
    /\ ui.content.kind = "result"
    /\ ui.content.from # fromCurrency

\* the calls getExchangeRate(from, to) that reach line 147: the table for
\* from is cached, or the request for it ends in a parsed body
ReachesLine147(from, o) == from \in DOMAIN exchangeRates \/ ~o.threw

\* C11 as claimed: with a table for from cached or just fetched,
\* getExchangeRate(from, to) returns table[from][to] if that entry is
\* present and 1 / table[to][from] otherwise, so it returns a number for
\* every to, also when no table for to is cached.
C11_AlwaysReturnsNumber ==
    \A from \in Currencies, to \in Currencies :
      \A o \in Outcomes(from) :
        ReachesLine147(from, o) =>
          LET run   == getExchangeRate(exchangeRates, from, to, o)
              table == run.rates[from]
          IN  /\ ~run.res.threw
              /\ to \in DOMAIN table => run.res.value = table[to]
              /\ (to \notin DOMAIN table /\ to \in DOMAIN run.rates)
                    => run.res.value = Inv(Lookup(run.rates[to], from))

\* C11 amended: it returns table[from][to] if that entry is present and not
\* 0; otherwise 1 / table[to][from] if a table for to is cached; otherwise
\* it throws.
C11_DirectInverseOrThrow ==
    \A from \in Currencies, to \in Currencies :
      \A o \in Outcomes(from) :
        ReachesLine147(from, o) =>
          LET run    == getExchangeRate(exchangeRates, from, to, o)
              table  == run.rates[from]
              direct == to \in DOMAIN table /\ table[to] # Num(0, 1)
          IN  /\ direct => (~run.res.threw /\ run.res.value = table[to])
              /\ (~direct /\ to \in DOMAIN run.rates)
                    => /\ ~run.res.threw
                       /\ run.res.value = Inv(Lookup(run.rates[to], from))
              /\ (~direct /\ to \notin DOMAIN run.rates) => run.res.threw

\* a conversion whose table for from was fetched, lacks the entry for to,
\* and no table for to is cached: getExchangeRate threw
C11_Witness ==
    /\ lastCall.path = "fetched"
    /\ lastCall.threw
    /\ ui.content = ErrorContent(MsgFailed)
    /\ "JPY" \in DOMAIN exchangeRates
    /\ "EUR" \notin DOMAIN exchangeRates["JPY"]
    /\ "EUR" \notin DOMAIN exchangeRates
    /\ getExchangeRate(exchangeRates, "JPY", "EUR", Failed).res.threw

\* every cached table is the payload of an ok response or the fallback table
OnlyOkTables == \A b \in DOMAIN origin : origin[b] # "notok"

\* C12: getExchangeRate(c, c) returns 1 for every code c, whether the
\* table for c is cached, fetched on demand (from an ok response), or the
\* rate is resolved through the cached USD table after a failed fetch.
C12_SameCodeRateIsOne ==
    OnlyOkTables =>
      \A c \in Currencies :
        \A o \in Outcomes(c) :
          ( /\ ~o.threw => o.data \in BodiesOf("primary", c, TRUE)
            /\ (c \notin DOMAIN exchangeRates /\ o.threw)
                  => "USD" \in DOMAIN exchangeRates )
          => LET run == getExchangeRate(exchangeRates, c, c, o)
             IN  /\ ~run.res.threw
                 /\ run.res.value = One

\* the tables a completed request for base can store
Payloads(base) ==
    {RatesOf(d) : d \in BodiesOf("primary", base, TRUE)
                        \cup BodiesOf("primary", base, FALSE)
                        \cup (IF base = "USD"
                              THEN BodiesOf("secondary", base, TRUE)
                              ELSE {})}

\* this step writes the table of base b: a conversion's fetch for b
\* completed, the load's USD or EUR body was stored, or the fallback table
\* was installed
WritesTable(b) ==
    \/ \E i \in 1..Len(pending) :
          /\ Ends(i)
          /\ pending[i].from = b
          /\ lastCall'.path = "fetched"
          /\ exchangeRates'[b] \in Payloads(b)
    \/ /\ b = "USD"
       /\ load.pc \in {"primary", "secondary"}
       /\ load'.pc = "eur"
       /\ exchangeRates'[b] = load'.usdData
       /\ exchangeRates'[b] \in Payloads(b)
    \/ /\ b = "EUR"
       /\ load.pc = "eur"
       /\ load'.pc = "done"
       /\ ~load'.caught
       /\ exchangeRates'[b] \in Payloads(b)
    \/ /\ b = "USD"
       /\ load.pc # "done"
       /\ load'.caught
       /\ exchangeRates'[b] = FallbackRates

\* C13: the cache starts empty; a cached base stays cached; and the table
\* of a base changes only in a step that completes a fetch for it (or
\* installs the fallback table for USD), which leaves that step's table in
\* the cache.
C13_CacheOnlyGrows ==
    /\ DOMAIN exchangeRates = {}
    /\ [][ /\ DOMAIN exchangeRates \subseteq DOMAIN exchangeRates'
           /\ \A b \in DOMAIN exchangeRates' :
                 ( \/ b \notin DOMAIN exchangeRates
                   \/ exchangeRates'[b] # exchangeRates[b] )
                 => WritesTable(b) ]_vars

\* the fallback table was installed and later replaced by the table of a
\* conversion's own USD fetch, next to another cached base
C13_Witness ==
    /\ load.caught
    /\ "USD" \in DOMAIN exchangeRates
    /\ exchangeRates["USD"] = UsdLive
    /\ lastCall.path = "fetched"
    /\ Cardinality(DOMAIN exchangeRates) >= 2

\* C14: a convertCurrency call issues at most one request, and none when
\* the table for from is cached when it is called; no continuation issues
\* another request for a call; the startup load issues at most three
\* requests: the primary one, the secondary one only after an unsuccessful
\* primary response, and the EUR one after the USD table was stored.
C14_RequestsBounded ==
    /\ [](/\ \A i \in 1..Len(pending) : pending[i].requests = 1
          /\ lastCall.requests <= 1
          /\ load.requests \in 1..3
          /\ load.requests = 3 => (load.src = "secondary" /\ load.usdStored))
    /\ [][ /\ Invoked =>
                /\ Len(pending') <= Len(pending) + 1
                /\ load'.requests = load.requests
                /\ fromCurrency' \in DOMAIN exchangeRates =>
                      /\ pending' = pending
                      /\ lastCall'.id = calls'
                      /\ lastCall'.requests = 0
           /\ ~Invoked => Len(pending') <= Len(pending)
           /\ \A i \in 1..Len(pending) : Ends(i) => lastCall'.requests = 1
           /\ load'.requests # load.requests =>
                /\ load'.requests = load.requests + 1
                /\ \/ /\ load.pc = "primary"
                      /\ load'.pc = "secondary"
                   \/ /\ load.pc \in {"primary", "secondary"}
                      /\ load'.pc = "eur"
                      /\ load'.usdStored ]_vars

\* the load used all three requests, and a conversion that found its table
\* cached finished without one while another one used its single request
C14_Witness ==
    /\ load.pc = "done"
    /\ load.requests = 3
    /\ calls = 2
    /\ lastCall.id = 2
    /\ lastCall.path = "cached"
    /\ lastCall.requests = 0
    /\ Len(pending) = 1
    /\ pending[1].requests = 1

\* the call that just ended left its result or its error on display and
\* the loading indicator off
ShownOnce(from, to) ==
    /\ ~ui'.loading
    /\ ui'.contentVisible
    /\ IF lastCall'.threw
       THEN ui'.content = ErrorContent(MsgFailed)
       ELSE /\ ui'.content.kind = "result"
            /\ ui'.content.from = from
            /\ ui'.content.to = to

\* C15: every convertCurrency call that passed validation and showed the
\* loading indicator ends, and ends in showResult or in showError: when
\* calls wait for their fetch, eventually none of them waits any more, and
\* the step that ends a call shows its result or 'Conversion failed'.
C15_EveryConversionEnds ==
    /\ (pending # <<>>) ~> (pending = <<>>)
    /\ [][ /\ \A i \in 1..Len(pending) :
                Ends(i) => ShownOnce(pending[i].from, pending[i].to)
           /\ ( /\ Invoked
                /\ AmountRead.tag = "number"
                /\ AmountRead.n > 0
                /\ fromCurrency' # toCurrency'
                /\ fromCurrency' \in DOMAIN exchangeRates )
              => ( /\ lastCall'.id = calls'
                   /\ ShownOnce(fromCurrency', toCurrency') ) ]_vars

\* a call whose fetch failed with no USD table cached has ended with the
\* error on display, and nothing is waiting
C15_Witness ==
    /\ pending = <<>>
    /\ calls = 2
    /\ lastCall.id = 2
    /\ lastCall.path = "cross"
    /\ lastCall.threw
    /\ lastCall.requests = 1
    /\ ~ui.loading
    /\ ui.content = ErrorContent(MsgFailed)

\* C16: every cached table is the rates payload of an ok response or the
\* fallback table; the body of an unsuccessful response is never stored.
C16_NoErrorBodyStored ==
    \A b \in DOMAIN exchangeRates :
       /\ b \in DOMAIN origin
       /\ origin[b] \in {"ok", "fallback"}
       /\ exchangeRates[b] # RatesOf(ErrorBody)

\* C17: the fallback table is installed only while the cache holds no USD
\* table: a USD table already stored is never overwritten by it.
C17_FallbackOnlyWithoutUsd ==
    [][ (~load.caught /\ load'.caught)
        => /\ "USD" \notin DOMAIN exchangeRates
           /\ exchangeRates'["USD"] = FallbackRates ]_vars

\* C18: the loading indicator is shown whenever at least one conversion is
\* waiting for its fetch.
C18_LoadingWhileInFlight ==
    pending # <<>> => ui.loading

\* C19: a click on the swap button exchanges the from and to selections, so
\* that exchanging them once more gives the original selection back; it
\* leaves the amount field and the cache as they were, and it calls
\* convertCurrency if and only if the amount field is not empty.
C19_SwapExchangesSelection ==
    [][ swapCurrencies
        => /\ <<fromCurrency', toCurrency'>> = <<toCurrency, fromCurrency>>
           /\ <<toCurrency', fromCurrency'>> = <<fromCurrency, toCurrency>>
           /\ amountInput' = amountInput
           /\ exchangeRates' = exchangeRates
           /\ Invoked <=> amountInput # <<>> ]_vars

\* two calls wait for their fetch, the second for the exchanged pair of the
\* first and for the same amount; the selects show the exchanged pair and
\* nothing is cached: between the two calls the selection was swapped
C19_Witness ==
    /\ Len(pending) = 2
    /\ pending[1].from = "USD"
    /\ pending[1].to = "EUR"
    /\ pending[2].from = "EUR"
    /\ pending[2].to = "USD"
    /\ pending[2].amount = pending[1].amount
    /\ pending[2].id = pending[1].id + 1
    /\ fromCurrency = "EUR"
    /\ toCurrency = "USD"
    /\ amountInput # <<>>
    /\ DOMAIN exchangeRates = {}

====
